---- MODULE Spec2Model ----
(***************************************************************************)
(* Model of the task-record manager of task_manager.py: the JSON store,    *)
(* the wall clock it stamps records with, and the six public operations    *)
(* of TaskManager, each one a whole load / mutate / save call; of the      *)
(* command handlers of task_cli.py that call them; and of two processes    *)
(* whose calls load, open and write the same store in any order.           *)
(*                                                                         *)
(* A call is a pure function of the store, the instant it runs at, its     *)
(* arguments and what the file system does to it; it yields the store it   *)
(* leaves, the error it raises and the value it returns.  The properties   *)
(* are stated over every call that can be made in a reachable state.       *)
(***************************************************************************)
EXTENDS Integers, Sequences, FiniteSets, TLC

(* ------------------------------ bounds --------------------------------- *)

\* Largest number of records the store is allowed to hold.
MaxTasks == 2

\* Largest id add_task may hand out, and largest id a caller passes.
MaxId == 3

\* Last instant a call may run at, in clock ticks.
MaxClock == 2

\* Clock ticks per second: isoformat(timespec="seconds") drops the rest.
TicksPerSecond == 2

(* --------------------------- program constants ------------------------- *)

STATUS_TODO == "todo"

STATUS_IN_PROGRESS_Underscore == "in_progress"

STATUS_IN_PROGRESS == "in-progress"

STATUS_DONE == "done"

VALID_STATUSES == {STATUS_TODO, STATUS_IN_PROGRESS, STATUS_DONE}

(* ------------------------------ inputs --------------------------------- *)

\* Characters str.strip() removes.
Whitespace == {" ", "\t"}

\* Descriptions callers pass, as sequences of characters: empty,
\* whitespace only, plain, and padded with whitespace (a tab in front, which
\* JSON writes as an escape, and a space behind).
Descriptions == { <<>>, <<" ", "\t">>, <<"a">>, <<"\t", "b", " ">> }

\* The value of an absent status filter (None).
NoFilter == "<none>"

\* Status filters callers pass to list_tasks.
Filters == {NoFilter, "todo", "in-progress", "done", "bogus", "Done", ""}

\* Id arguments that spell an integer, as the strings argparse hands over:
\* plain, padded with whitespace, signed, negative.
IntegerArgs == { <<"1">>, <<"2">>, <<" ", "3">>, <<"+", "1">>, <<"-", "1">> }

\* Id arguments that spell no integer: empty, a letter, a decimal fraction,
\* digits followed by a letter.
NonIntegerArgs == { <<>>, <<"a">>, <<"1", ".", "5">>, <<"2", "a">> }

\* The id arguments the command line passes to the handlers.
IdArgs == IntegerArgs \cup NonIntegerArgs

\* Ids callers pass to update, delete and the mark operations.
Ids == 1..MaxId

\* Instants at which a call can read the wall clock.  datetime.now() is the
\* local wall clock: nothing orders the readings of two successive calls.
Instants == 0..MaxClock

\* What the file system does to one call: nothing, OSError on the read,
\* OSError when the file is opened for writing, OSError in the middle of
\* the write (after open(path, "w") has truncated the file).
Faults == {"none", "read", "open", "write"}

NoFaults == {"none"}

\* The value of a call that raised: no record.
NoTask ==
    [id |-> 0, description |-> <<>>, status |-> "none",
     createdAt |-> -1, updatedAt |-> -1]

\* No timestamp.
NoTime == -1

(* ------------------------------- state --------------------------------- *)

VARIABLES
    file,     \* the store: [kind, tasks]; kind is missing, json, malformed
              \* (text that is not JSON) or undecodable (bytes that are not
              \* text); tasks is the array of objects as the file spells it
    issued,   \* history: the ids add_task has returned so far
    born,     \* history: for each id in the store, the timestamp of the
              \* add_task call that created its record
    running   \* for each of two processes that share the store, how far
              \* its call has got and the collection it holds in memory;
              \* both idle wherever one call runs at a time

vars == <<file, issued, born, running>>

(* --------------------------- internal methods -------------------------- *)

RECURSIVE MaxOf(_)
\* max(...) of a non-empty sequence of numbers.
MaxOf(s) ==
    IF Len(s) = 1 THEN Head(s)
    ELSE LET m == MaxOf(Tail(s)) IN IF Head(s) > m THEN Head(s) ELSE m

\* t["id"] for t in tasks
IdsOf(tasks) == [i \in 1..Len(tasks) |-> tasks[i].id]

next_id_Count(tasks) == Len(tasks) + 1

next_id_Smallest(tasks) ==
    CHOOSE n \in 1..(Len(tasks) + 1) :
        /\ \A i \in 1..Len(tasks) : tasks[i].id # n
        /\ \A m \in 1..(n - 1) : \E i \in 1..Len(tasks) : tasks[i].id = m

next_id(tasks) ==
    IF tasks = <<>> THEN 1 ELSE MaxOf(IdsOf(tasks)) + 1

\* A string as json.dump spells it between the quotes, one token for each
\* character: the character itself, or for a tab, a backslash and a double
\* quote an escape of two characters, a backslash and a second one.
json_escape(s) ==
    [i \in 1..Len(s) |->
        IF s[i] = "\t" THEN "\\t"
        ELSE IF s[i] = "\\" THEN "\\\\"
        ELSE IF s[i] = "\"" THEN "\\\""
        ELSE s[i]]

json_unescape_Raw(e) == e

\* The string json.load reads back from the tokens between the quotes.
json_unescape(e) ==
    [i \in 1..Len(e) |->
        IF e[i] = "\\t" THEN "\t"
        ELSE IF e[i] = "\\\\" THEN "\\"
        ELSE IF e[i] = "\\\"" THEN "\""
        ELSE e[i]]

\* json.dump(tasks, tf, indent=2): the array of objects in the file, in
\* order, the fields of each in the order of the dict.  Numbers and the
\* strings made of plain characters (statuses, timestamps) are spelled as
\* they are; the description is escaped.
json_dump(tasks) ==
    [i \in 1..Len(tasks) |->
        [tasks[i] EXCEPT !.description = json_escape(@)]]

\* json.load(tf) of an array json.dump wrote.
json_load(text) ==
    [i \in 1..Len(text) |->
        [text[i] EXCEPT !.description = json_unescape(@)]]

get_tasks_Swallow(f, fault) ==
    IF fault # "read" /\ f.kind = "json"
    THEN [err |-> "none", tasks |-> json_load(f.tasks)]
    ELSE [err |-> "none", tasks |-> <<>>]

\* open() raises OSError (the storage error) before anything is read; a
\* missing file and text that is not JSON give the empty list; bytes that
\* are not UTF-8 make tf.read() raise UnicodeDecodeError, which none of the
\* except clauses catches.
get_tasks(f, fault) ==
    IF fault = "read" THEN [err |-> "storage", tasks |-> <<>>]
    ELSE IF f.kind = "json" THEN [err |-> "none", tasks |-> json_load(f.tasks)]
    ELSE IF f.kind = "undecodable" THEN [err |-> "decode", tasks |-> <<>>]
    ELSE [err |-> "none", tasks |-> <<>>]

get_timestamp(now) == now \div TicksPerSecond

RECURSIVE find_index(_, _, _)
\* The loop of _find_task: the position of the first record with the given
\* id from position i on, 0 (None) if there is none.
find_index(tasks, task_id, i) ==
    IF i > Len(tasks) THEN 0
    ELSE IF tasks[i].id = task_id THEN i
    ELSE find_index(tasks, task_id, i + 1)

find_task_First(tasks, task_id) == IF tasks = <<>> THEN 0 ELSE 1

find_task(tasks, task_id) == find_index(tasks, task_id, 1)

RECURSIVE DecimalLength(_)
\* The number of digits json.dump writes for a natural number.
DecimalLength(n) == IF n < 10 THEN 1 ELSE 1 + DecimalLength(n \div 10)

\* The number of characters of one token of an escaped string.
TokenLength(c) == IF c \in {"\\t", "\\\\", "\\\""} THEN 2 ELSE 1

RECURSIVE EscapedLength(_)
\* The number of characters json.dump writes between the quotes.
EscapedLength(e) ==
    IF e = <<>> THEN 0 ELSE TokenLength(Head(e)) + EscapedLength(Tail(e))

\* len() of a status string.
StatusLength(s) ==
    IF s = STATUS_TODO \/ s = STATUS_DONE THEN 4
    ELSE IF s = STATUS_IN_PROGRESS THEN 11
    ELSE 0

RECURSIVE RecordsLength(_)
\* The characters json.dump(..., indent=2) writes for the objects of an
\* array: 139 for the braces, keys, quotes, indentation and the two
\* timestamps of 19 characters, the rest for id, description and status.
RecordsLength(text) ==
    IF text = <<>> THEN 0
    ELSE 139 + DecimalLength(Head(text).id)
             + EscapedLength(Head(text).description)
             + StatusLength(Head(text).status)
             + RecordsLength(Tail(text))

\* The length of the text json.dump(tasks, tf, indent=2) writes: "[]", or
\* the objects between "[\n" and "\n]" with ",\n" between two of them.
json_size(text) ==
    IF text = <<>> THEN 2
    ELSE 4 + RecordsLength(text) + 2 * (Len(text) - 1)

\* open(self.path, "w"): the file exists and is empty, which is no JSON.
open_for_write(f) == [kind |-> "malformed", tasks |-> <<>>]

write_text_Merging(f, tasks) ==
    IF f.kind = "json"
    THEN [kind |-> "json",
          tasks |-> f.tasks \o SelectSeq(json_dump(tasks),
                        LAMBDA t : \A i \in 1..Len(f.tasks) : f.tasks[i] # t)]
    ELSE [kind |-> "json", tasks |-> json_dump(tasks)]

\* json.dump(tasks, tf, indent=2) and the close of a file this call opened
\* for writing: the text goes out in one write at offset 0.  Onto the empty
\* file that leaves the array; onto a text another process wrote since the
\* file was opened it leaves the array, or, when the other text is longer,
\* the array followed by the rest of that text, which is no JSON.
write_text(f, tasks) ==
    IF f.kind = "json" /\ json_size(f.tasks) > json_size(json_dump(tasks))
    THEN [kind |-> "malformed", tasks |-> <<>>]
    ELSE [kind |-> "json", tasks |-> json_dump(tasks)]

save_tasks(f, tasks, fault) ==
    IF fault = "open" THEN [err |-> "storage", file |-> f]
    ELSE IF fault = "write"
         THEN [err |-> "storage",
               file |-> [kind |-> "malformed", tasks |-> <<>>]]
    ELSE [err |-> "none",
          file |-> [kind |-> "json", tasks |-> json_dump(tasks)]]

RECURSIVE lstrip(_)
lstrip(s) ==
    IF s # <<>> /\ Head(s) \in Whitespace THEN lstrip(Tail(s)) ELSE s

RECURSIVE rstrip(_)
rstrip(s) ==
    IF s # <<>> /\ s[Len(s)] \in Whitespace
    THEN rstrip(SubSeq(s, 1, Len(s) - 1)) ELSE s

strip(s) == rstrip(lstrip(s))

IsEmptyDescription_NoStrip(d) == d = <<>>

\* not description or not description.strip()
IsEmptyDescription(d) == d = <<>> \/ strip(d) = <<>>

\* The class of every exception the manager raises, whatever its cause.
ValueError == "ValueError"

\* The class of the exception a file that is not UTF-8 text makes the load
\* raise: a subclass of ValueError.
UnicodeDecodeError == "UnicodeDecodeError"

\* The class of the exception of a call that returns: none.
NoException == "none"

\* A call that raises: the store as the call leaves it, the cause of the
\* error (what its message says), and the class of the exception.
Raised(f, kind) ==
    [file |-> f, err |-> kind,
     exc |-> IF kind = "decode" THEN UnicodeDecodeError ELSE ValueError,
     ret |-> NoTask, listed |-> <<>>]

\* A call that reaches its save: it returns the record unless the save raises.
Returned(sv, task) ==
    [file |-> sv.file, err |-> sv.err,
     exc |-> IF sv.err = "none" THEN NoException ELSE ValueError,
     ret |-> IF sv.err = "none" THEN task ELSE NoTask, listed |-> <<>>]

update_task_status_NoStamp(f, now, task_id, new_status, fault) ==
    LET ld == get_tasks(f, fault) IN
    IF ld.err # "none" THEN Raised(f, ld.err)
    ELSE LET i == find_task(ld.tasks, task_id) IN
         IF i = 0 THEN Raised(f, "notfound")
         ELSE LET task == [ld.tasks[i] EXCEPT !.status = new_status]
                  tasks == [ld.tasks EXCEPT ![i] = task]
              IN Returned(save_tasks(f, tasks, fault), task)

update_task_status_Forward(f, now, task_id, new_status, fault) ==
    LET ld == get_tasks(f, fault) IN
    IF ld.err # "none" THEN Raised(f, ld.err)
    ELSE LET i == find_task(ld.tasks, task_id) IN
         IF i = 0 THEN Raised(f, "notfound")
         ELSE IF ld.tasks[i].status = STATUS_DONE THEN Raised(f, "validation")
         ELSE LET task == [ld.tasks[i] EXCEPT
                               !.status = new_status,
                               !.updatedAt = get_timestamp(now)]
                  tasks == [ld.tasks EXCEPT ![i] = task]
              IN Returned(save_tasks(f, tasks, fault), task)

update_task_status_Redescribe(f, now, task_id, new_status, fault) ==
    LET ld == get_tasks(f, fault) IN
    IF ld.err # "none" THEN Raised(f, ld.err)
    ELSE LET i == find_task(ld.tasks, task_id) IN
         IF i = 0 THEN Raised(f, "notfound")
         ELSE LET task == [ld.tasks[i] EXCEPT
                               !.status = new_status,
                               !.description = strip(@),
                               !.updatedAt = get_timestamp(now)]
                  tasks == [ld.tasks EXCEPT ![i] = task]
              IN Returned(save_tasks(f, tasks, fault), task)

update_task_status(f, now, task_id, new_status, fault) ==
    LET ld == get_tasks(f, fault) IN
    IF ld.err # "none" THEN Raised(f, ld.err)
    ELSE LET i == find_task(ld.tasks, task_id) IN
         IF i = 0 THEN Raised(f, "notfound")
         ELSE LET task == [ld.tasks[i] EXCEPT
                               !.status = new_status,
                               !.updatedAt = get_timestamp(now)]
                  tasks == [ld.tasks EXCEPT ![i] = task]
              IN Returned(save_tasks(f, tasks, fault), task)

(* ---------------------------- public methods --------------------------- *)

add_task_Prepend(f, now, description, fault) ==
    IF IsEmptyDescription(description) THEN Raised(f, "validation")
    ELSE LET ld == get_tasks(f, fault) IN
         IF ld.err # "none" THEN Raised(f, ld.err)
         ELSE LET task == [id |-> next_id(ld.tasks),
                           description |-> description,
                           status |-> STATUS_TODO,
                           createdAt |-> get_timestamp(now),
                           updatedAt |-> get_timestamp(now)]
              IN Returned(save_tasks(f, <<task>> \o ld.tasks, fault), task)

add_task_Trimmed(f, now, description, fault) ==
    IF IsEmptyDescription(description) THEN Raised(f, "validation")
    ELSE LET ld == get_tasks(f, fault) IN
         IF ld.err # "none" THEN Raised(f, ld.err)
         ELSE LET timestamp == get_timestamp(now)
                  task == [id |-> next_id(ld.tasks),
                           description |-> strip(description),
                           status |-> STATUS_TODO,
                           createdAt |-> timestamp,
                           updatedAt |-> timestamp]
              IN Returned(save_tasks(f, Append(ld.tasks, task), fault), task)

add_task(f, now, description, fault) ==
    IF IsEmptyDescription(description) THEN Raised(f, "validation")
    ELSE LET ld == get_tasks(f, fault) IN
         IF ld.err # "none" THEN Raised(f, ld.err)
         ELSE LET timestamp == get_timestamp(now)
                  task == [id |-> next_id(ld.tasks),
                           description |-> description,
                           status |-> STATUS_TODO,
                           createdAt |-> timestamp,
                           updatedAt |-> timestamp]
              IN Returned(save_tasks(f, Append(ld.tasks, task), fault), task)

list_tasks_Unfiltered(f, status, fault) ==
    LET ld == get_tasks(f, fault) IN
    IF ld.err # "none" THEN Raised(f, ld.err)
    ELSE IF status # NoFilter /\ status \notin VALID_STATUSES
         THEN Raised(f, "validation")
    ELSE [file |-> f, err |-> "none", exc |-> NoException,
          ret |-> NoTask, listed |-> ld.tasks]

list_tasks_Lenient(f, status, fault) ==
    LET ld == get_tasks(f, fault) IN
    IF ld.err # "none" THEN Raised(f, ld.err)
    ELSE [file |-> f, err |-> "none", exc |-> NoException, ret |-> NoTask,
          listed |-> IF status = NoFilter THEN ld.tasks
                     ELSE SelectSeq(ld.tasks, LAMBDA t : t.status = status)]

list_tasks_Saves(f, status, fault) ==
    LET ld == get_tasks(f, fault) IN
    IF ld.err # "none" THEN Raised(f, ld.err)
    ELSE IF status # NoFilter /\ status \notin VALID_STATUSES
         THEN Raised(f, "validation")
    ELSE [file |-> save_tasks(f, ld.tasks, fault).file, err |-> "none",
          exc |-> NoException, ret |-> NoTask,
          listed |-> IF status = NoFilter THEN ld.tasks
                     ELSE SelectSeq(ld.tasks, LAMBDA t : t.status = status)]

list_tasks(f, status, fault) ==
    LET ld == get_tasks(f, fault) IN
    IF ld.err # "none" THEN Raised(f, ld.err)
    ELSE IF status = NoFilter
         THEN [file |-> f, err |-> "none", exc |-> NoException,
               ret |-> NoTask, listed |-> ld.tasks]
    ELSE IF status \notin VALID_STATUSES THEN Raised(f, "validation")
    ELSE [file |-> f, err |-> "none", exc |-> NoException, ret |-> NoTask,
          listed |-> SelectSeq(ld.tasks, LAMBDA t : t.status = status)]

update_task_Restamp(f, now, id, updated_description, fault) ==
    IF IsEmptyDescription(updated_description) THEN Raised(f, "validation")
    ELSE LET ld == get_tasks(f, fault) IN
         IF ld.err # "none" THEN Raised(f, ld.err)
         ELSE LET i == find_task(ld.tasks, id) IN
              IF i = 0 THEN Raised(f, "notfound")
              ELSE LET task == [ld.tasks[i] EXCEPT
                                    !.description = updated_description,
                                    !.createdAt = get_timestamp(now),
                                    !.updatedAt = get_timestamp(now)]
                       tasks == [ld.tasks EXCEPT ![i] = task]
                   IN Returned(save_tasks(f, tasks, fault), task)

update_task_Reopen(f, now, id, updated_description, fault) ==
    IF IsEmptyDescription(updated_description) THEN Raised(f, "validation")
    ELSE LET ld == get_tasks(f, fault) IN
         IF ld.err # "none" THEN Raised(f, ld.err)
         ELSE LET i == find_task(ld.tasks, id) IN
              IF i = 0 THEN Raised(f, "notfound")
              ELSE LET task == [ld.tasks[i] EXCEPT
                                    !.description = updated_description,
                                    !.status = STATUS_TODO,
                                    !.updatedAt = get_timestamp(now)]
                       tasks == [ld.tasks EXCEPT ![i] = task]
                   IN Returned(save_tasks(f, tasks, fault), task)

update_task_Requeue(f, now, id, updated_description, fault) ==
    IF IsEmptyDescription(updated_description) THEN Raised(f, "validation")
    ELSE LET ld == get_tasks(f, fault) IN
         IF ld.err # "none" THEN Raised(f, ld.err)
         ELSE LET i == find_task(ld.tasks, id) IN
              IF i = 0 THEN Raised(f, "notfound")
              ELSE LET task == [ld.tasks[i] EXCEPT
                                    !.description = updated_description,
                                    !.updatedAt = get_timestamp(now)]
                       tasks == Append(SubSeq(ld.tasks, 1, i - 1)
                                       \o SubSeq(ld.tasks, i + 1, Len(ld.tasks)),
                                       task)
                   IN Returned(save_tasks(f, tasks, fault), task)

update_task(f, now, id, updated_description, fault) ==
    IF IsEmptyDescription(updated_description) THEN Raised(f, "validation")
    ELSE LET ld == get_tasks(f, fault) IN
         IF ld.err # "none" THEN Raised(f, ld.err)
         ELSE LET i == find_task(ld.tasks, id) IN
              IF i = 0 THEN Raised(f, "notfound")
              ELSE LET task == [ld.tasks[i] EXCEPT
                                    !.description = updated_description,
                                    !.updatedAt = get_timestamp(now)]
                       tasks == [ld.tasks EXCEPT ![i] = task]
                   IN Returned(save_tasks(f, tasks, fault), task)

delete_task_Truncate(f, id, fault) ==
    LET ld == get_tasks(f, fault) IN
    IF ld.err # "none" THEN Raised(f, ld.err)
    ELSE LET i == find_task(ld.tasks, id) IN
         IF i = 0 THEN Raised(f, "notfound")
         ELSE Returned(save_tasks(f, SubSeq(ld.tasks, 1, i - 1), fault),
                       ld.tasks[i])

delete_task(f, id, fault) ==
    LET ld == get_tasks(f, fault) IN
    IF ld.err # "none" THEN Raised(f, ld.err)
    ELSE LET i == find_task(ld.tasks, id) IN
         IF i = 0 THEN Raised(f, "notfound")
         ELSE LET tasks == SubSeq(ld.tasks, 1, i - 1)
                               \o SubSeq(ld.tasks, i + 1, Len(ld.tasks))
              IN Returned(save_tasks(f, tasks, fault), ld.tasks[i])

mark_in_progress(f, now, id, fault) ==
    update_task_status(f, now, id, STATUS_IN_PROGRESS, fault)

mark_done(f, now, id, fault) ==
    update_task_status(f, now, id, STATUS_DONE, fault)

(* --------------------- command handlers (task_cli.py) ------------------ *)

\* The characters int() reads as decimal digits, each at its value plus one.
DigitChars == <<"0", "1", "2", "3", "4", "5", "6", "7", "8", "9">>

\* The value of one decimal digit.
DigitValue(c) == (CHOOSE k \in 1..10 : DigitChars[k] = c) - 1

RECURSIVE DigitsValue(_)
\* The number a sequence of decimal digits spells.
DigitsValue(s) ==
    IF s = <<>> THEN 0
    ELSE 10 * DigitsValue(SubSeq(s, 1, Len(s) - 1)) + DigitValue(s[Len(s)])

\* A variant of int that reads the digits in front and ignores the rest.
int_LeadingDigits(s) ==
    IF s # <<>> /\ \E k \in 1..10 : DigitChars[k] = s[1]
    THEN [ok |-> TRUE, value |-> DigitValue(s[1])]
    ELSE [ok |-> FALSE, value |-> 0]

\* int(args.id) of a string without underscores: surrounding whitespace is
\* dropped, then an optional sign and at least one decimal digit must make
\* up the whole string; anything else raises ValueError (ok is FALSE).
int(s) ==
    LET t == strip(s)
        signed == t # <<>> /\ t[1] \in {"+", "-"}
        body == IF signed THEN Tail(t) ELSE t
    IN IF body = <<>>
          \/ \E i \in 1..Len(body) :
                 \A k \in 1..10 : DigitChars[k] # body[i]
       THEN [ok |-> FALSE, value |-> 0]
       ELSE [ok |-> TRUE,
             value |-> IF signed /\ t[1] = "-"
                       THEN 0 - DigitsValue(body) ELSE DigitsValue(body)]

\* except ValueError: the clause catches ValueError and its subclasses.
IsValueError(exc) == exc \in {ValueError, UnicodeDecodeError}

\* A handler that returned: the store the manager left, the lines it
\* printed, and the manager methods it called.
Handled(f, out, calls) ==
    [file |-> f, exc |-> NoException, out |-> out, calls |-> calls]

\* A handler the exception of the manager call r went through: nothing
\* printed.
Propagated(r, calls) ==
    [file |-> r.file, exc |-> r.exc, out |-> <<>>, calls |-> calls]

\* print(f"Error: {e}") of the exception of the manager call r; the message
\* tells the cause.
ErrorLine(r) == <<"Error: ", r.err>>

\* print(f"Error: Invalid task ID: {args.id}")
InvalidIdLine(arg) == <<"Error: Invalid task ID: ", arg>>

\* f"{t['id']} - {t['description']} - {t['status']}" behind a prefix.
TaskLine(prefix, t) == <<prefix, t.id, " - ", t.description, " - ", t.status>>

\* No try around tm.add_task: whatever it raises leaves the handler.
command_add(f, now, description, fault) ==
    LET t == add_task(f, now, description, fault) IN
    IF t.exc # NoException THEN Propagated(t, <<"add_task">>)
    ELSE Handled(t.file, <<TaskLine("Task added: ", t.ret)>>, <<"add_task">>)

command_list(f, status, fault) ==
    LET r == list_tasks(f, status, fault)
        calls == <<"list_tasks">>
    IN IF r.exc # NoException
       THEN IF IsValueError(r.exc)
            THEN Handled(r.file, <<ErrorLine(r)>>, calls)
            ELSE Propagated(r, calls)
       ELSE IF r.listed = <<>>
            THEN IF status # NoFilter /\ status # ""
                 THEN Handled(r.file,
                              <<<<"No tasks found with status: ", status, ".">>>>,
                              calls)
                 ELSE Handled(r.file, <<<<"No tasks found.">>>>, calls)
       ELSE Handled(r.file,
                    <<<<"\nListing ", Len(r.listed), " tasks:">>,
                      <<"----------------------------------------">>>>
                    \o [i \in 1..Len(r.listed) |-> TaskLine("", r.listed[i])]
                    \o <<<<"\n">>>>,
                    calls)

\* The second try block of the handlers that take an id: the manager call r
\* and the line printed when it returns.
Reported(r, line, calls) ==
    IF r.exc = NoException THEN Handled(r.file, <<line>>, calls)
    ELSE IF IsValueError(r.exc) THEN Handled(r.file, <<ErrorLine(r)>>, calls)
    ELSE Propagated(r, calls)

command_update(f, now, id, description, fault) ==
    LET task_id == int(id) IN
    IF ~task_id.ok THEN Handled(f, <<InvalidIdLine(id)>>, <<>>)
    ELSE LET t == update_task(f, now, task_id.value, description, fault)
         IN Reported(t, TaskLine("Task updated: ", t.ret), <<"update_task">>)

command_delete(f, id, fault) ==
    LET task_id == int(id) IN
    IF ~task_id.ok THEN Handled(f, <<InvalidIdLine(id)>>, <<>>)
    ELSE Reported(delete_task(f, task_id.value, fault),
                  <<"Task deleted: ", task_id.value>>, <<"delete_task">>)

command_mark_in_progress(f, now, id, fault) ==
    LET task_id == int(id) IN
    IF ~task_id.ok THEN Handled(f, <<InvalidIdLine(id)>>, <<>>)
    ELSE Reported(mark_in_progress(f, now, task_id.value, fault),
                  <<"Task marked as in progress: ", task_id.value>>,
                  <<"mark_in_progress">>)

command_mark_done(f, now, id, fault) ==
    LET task_id == int(id) IN
    IF ~task_id.ok THEN Handled(f, <<InvalidIdLine(id)>>, <<>>)
    ELSE Reported(mark_done(f, now, task_id.value, fault),
                  <<"Task marked as done: ", task_id.value>>, <<"mark_done">>)

(* ------------------------------ the machine ---------------------------- *)

\* The processes that may run calls on the same store at the same time.
Procs == {"A", "B"}

\* A process that runs no call: it holds no collection.
Idle == [pc |-> "idle", tasks |-> <<>>]

\* The collection a call that starts now loads, when the read succeeds.
Stored == get_tasks(file, "none").tasks

\* The birth timestamps b of the records of store f, kept for the ids the
\* store g a call left still holds (all of them unless records are gone).
Surviving(b, f, g) ==
    IF Len(g.tasks) = Len(f.tasks) THEN b
    ELSE LET ids == {g.tasks[k].id : k \in 1..Len(g.tasks)}
         IN [i \in Ids |-> IF i \in ids THEN b[i] ELSE NoTime]

\* A fresh TaskManager on a store that is missing, empty or holds "[]".
Init ==
    /\ file \in { [kind |-> "missing", tasks |-> <<>>],
                  [kind |-> "malformed", tasks |-> <<>>],
                  [kind |-> "json", tasks |-> <<>>] }
    /\ issued = {}
    /\ born = [i \in Ids |-> NoTime]
    /\ running = [p \in Procs |-> Idle]

AddTask(F, T, D) ==
    /\ UNCHANGED running
    /\ Len(Stored) < MaxTasks
    /\ next_id(Stored) <= MaxId
    /\ \E d \in D, now \in T, fault \in F :
        /\ LET r == add_task(file, now, d, fault) IN
            /\ file' = r.file
            /\ issued' = IF r.err = "none" THEN issued \cup {r.ret.id}
                         ELSE issued
            /\ born' = IF r.err = "none"
                       THEN [born EXCEPT ![r.ret.id] = get_timestamp(now)]
                       ELSE Surviving(born, file, r.file)

ListTasks(F) ==
    \E s \in Filters, fault \in F :
        /\ file' = list_tasks(file, s, fault).file
        /\ UNCHANGED <<issued, born, running>>

UpdateTask(F, T, D) ==
    \E id \in Ids, d \in D, now \in T, fault \in F :
        /\ file' = update_task(file, now, id, d, fault).file
        /\ born' = Surviving(born, file, file')
        /\ UNCHANGED <<issued, running>>

DeleteTask(F) ==
    \E id \in Ids, fault \in F :
        /\ file' = delete_task(file, id, fault).file
        /\ born' = Surviving(born, file, file')
        /\ UNCHANGED <<issued, running>>

MarkInProgress(F, T) ==
    \E id \in Ids, now \in T, fault \in F :
        /\ file' = mark_in_progress(file, now, id, fault).file
        /\ born' = Surviving(born, file, file')
        /\ UNCHANGED <<issued, running>>

MarkDone(F, T) ==
    \E id \in Ids, now \in T, fault \in F :
        /\ file' = mark_done(file, now, id, fault).file
        /\ born' = Surviving(born, file, file')
        /\ UNCHANGED <<issued, running>>

\* One call at a time, on a file system that does not fail.
Next ==
    \/ AddTask(NoFaults, Instants, Descriptions)
    \/ ListTasks(NoFaults)
    \/ UpdateTask(NoFaults, Instants, Descriptions)
    \/ DeleteTask(NoFaults)
    \/ MarkInProgress(NoFaults, Instants)
    \/ MarkDone(NoFaults, Instants)

Spec == Init /\ [][Next]_vars

\* One call at a time, on a file system that may fail any read or write.
NextIO ==
    \/ AddTask(Faults, Instants, Descriptions)
    \/ ListTasks(Faults)
    \/ UpdateTask(Faults, Instants, Descriptions)
    \/ DeleteTask(Faults)
    \/ MarkInProgress(Faults, Instants)
    \/ MarkDone(Faults, Instants)

SpecIO == Init /\ [][NextIO]_vars

\* A fresh TaskManager on a path where any file may lie, one that holds
\* bytes that are no UTF-8 text included.
InitAnyFile ==
    /\ file \in { [kind |-> "missing", tasks |-> <<>>],
                  [kind |-> "malformed", tasks |-> <<>>],
                  [kind |-> "undecodable", tasks |-> <<>>],
                  [kind |-> "json", tasks |-> <<>>] }
    /\ issued = {}
    /\ born = [i \in Ids |-> NoTime]
    /\ running = [p \in Procs |-> Idle]

SpecAnyFile == InitAnyFile /\ [][NextIO]_vars

\* The instants of the second the clock starts in.
FirstSecond == {t \in Instants : get_timestamp(t) = get_timestamp(0)}

\* One call at a time, all of them within one second of the wall clock (a
\* script that runs the commands one after the other): every timestamp the
\* store holds is that second.
NextSameSecond ==
    \/ AddTask(NoFaults, FirstSecond, Descriptions)
    \/ ListTasks(NoFaults)
    \/ UpdateTask(NoFaults, FirstSecond, Descriptions)
    \/ DeleteTask(NoFaults)
    \/ MarkInProgress(NoFaults, FirstSecond)
    \/ MarkDone(NoFaults, FirstSecond)

SpecSameSecond == Init /\ [][NextSameSecond]_vars

\* The same, on a file system that may fail any read or write.
NextSameSecondIO ==
    \/ AddTask(Faults, FirstSecond, Descriptions)
    \/ ListTasks(Faults)
    \/ UpdateTask(Faults, FirstSecond, Descriptions)
    \/ DeleteTask(Faults)
    \/ MarkInProgress(Faults, FirstSecond)
    \/ MarkDone(Faults, FirstSecond)

SpecSameSecondIO == Init /\ [][NextSameSecondIO]_vars

\* The one description of callers that word every task alike.
PlainDescription == {<<"a">>}

\* One call at a time at any reading of the clock, every description the
\* same plain text: the stores differ in ids, statuses and timestamps only.
NextOneWording ==
    \/ AddTask(NoFaults, Instants, PlainDescription)
    \/ ListTasks(NoFaults)
    \/ UpdateTask(NoFaults, Instants, PlainDescription)
    \/ DeleteTask(NoFaults)
    \/ MarkInProgress(NoFaults, Instants)
    \/ MarkDone(NoFaults, Instants)

SpecOneWording == Init /\ [][NextOneWording]_vars

\* The instants a clock that never goes backwards can show at the next
\* call: none in a second before one the store records.  (Every reading of
\* such a clock is at or after the readings of the earlier calls, those that
\* stamped the records of the store among them.)
NotEarlier ==
    {t \in Instants :
        \A i \in 1..Len(file.tasks) :
            /\ get_timestamp(t) >= file.tasks[i].createdAt
            /\ get_timestamp(t) >= file.tasks[i].updatedAt}

\* One call at a time, on a file system that does not fail, under a clock
\* that never goes backwards between calls.
NextClockForward ==
    \/ AddTask(NoFaults, NotEarlier, Descriptions)
    \/ ListTasks(NoFaults)
    \/ UpdateTask(NoFaults, NotEarlier, Descriptions)
    \/ DeleteTask(NoFaults)
    \/ MarkInProgress(NoFaults, NotEarlier)
    \/ MarkDone(NoFaults, NotEarlier)

SpecClockForward == Init /\ [][NextClockForward]_vars

CommandAdd(F, T, D) ==
    /\ UNCHANGED running
    /\ Len(Stored) < MaxTasks
    /\ next_id(Stored) <= MaxId
    /\ \E d \in D, now \in T, fault \in F :
        LET t == add_task(file, now, d, fault) IN
        /\ file' = command_add(file, now, d, fault).file
        /\ issued' = IF t.err = "none" THEN issued \cup {t.ret.id} ELSE issued
        /\ born' = IF t.err = "none"
                   THEN [born EXCEPT ![t.ret.id] = get_timestamp(now)]
                   ELSE Surviving(born, file, t.file)

CommandList(F) ==
    \E s \in Filters, fault \in F :
        /\ file' = command_list(file, s, fault).file
        /\ UNCHANGED <<issued, born, running>>

CommandUpdate(F, T, D) ==
    \E id \in IdArgs, d \in D, now \in T, fault \in F :
        /\ file' = command_update(file, now, id, d, fault).file
        /\ born' = Surviving(born, file, file')
        /\ UNCHANGED <<issued, running>>

CommandDelete(F) ==
    \E id \in IdArgs, fault \in F :
        /\ file' = command_delete(file, id, fault).file
        /\ born' = Surviving(born, file, file')
        /\ UNCHANGED <<issued, running>>

CommandMarkInProgress(F, T) ==
    \E id \in IdArgs, now \in T, fault \in F :
        /\ file' = command_mark_in_progress(file, now, id, fault).file
        /\ born' = Surviving(born, file, file')
        /\ UNCHANGED <<issued, running>>

CommandMarkDone(F, T) ==
    \E id \in IdArgs, now \in T, fault \in F :
        /\ file' = command_mark_done(file, now, id, fault).file
        /\ born' = Surviving(born, file, file')
        /\ UNCHANGED <<issued, running>>

\* One command of the command line at a time, all within one second, on a
\* file system that may fail any read or write.
NextCLI ==
    \/ CommandAdd(Faults, FirstSecond, Descriptions)
    \/ CommandList(Faults)
    \/ CommandUpdate(Faults, FirstSecond, Descriptions)
    \/ CommandDelete(Faults)
    \/ CommandMarkInProgress(Faults, FirstSecond)
    \/ CommandMarkDone(Faults, FirstSecond)

SpecCLI == Init /\ [][NextCLI]_vars

\* The collection the call with result r passes to _save_tasks: what a save
\* nothing interferes with persists, read back.
Collected(r) == get_tasks(r.file, "none").tasks

\* Process p starts a call that loads the store, finds nothing to raise and
\* holds the changed collection in memory, ready to save it.
Start(p, r) ==
    /\ running[p].pc = "idle"
    /\ r.err = "none"
    /\ running' = [running EXCEPT
                       ![p] = [pc |-> "loaded", tasks |-> Collected(r)]]
    /\ UNCHANGED <<file, issued, born>>

StartAdd(p, T, D) ==
    /\ Len(Stored) < MaxTasks
    /\ next_id(Stored) <= MaxId
    /\ \E d \in D, now \in T : Start(p, add_task(file, now, d, "none"))

StartUpdate(p, T, D) ==
    \E id \in Ids, d \in D, now \in T :
        Start(p, update_task(file, now, id, d, "none"))

StartDelete(p) ==
    \E id \in Ids : Start(p, delete_task(file, id, "none"))

StartMarkInProgress(p, T) ==
    \E id \in Ids, now \in T :
        Start(p, mark_in_progress(file, now, id, "none"))

StartMarkDone(p, T) ==
    \E id \in Ids, now \in T : Start(p, mark_done(file, now, id, "none"))

\* with open(self.path, "w") as tf: the file is truncated.
OpenForWrite(p) ==
    /\ running[p].pc = "loaded"
    /\ file' = open_for_write(file)
    /\ running' = [running EXCEPT ![p].pc = "opened"]
    /\ UNCHANGED <<issued, born>>

\* json.dump(tasks, tf, indent=2), the close of the file, and the return.
WriteText(p) ==
    /\ running[p].pc = "opened"
    /\ file' = write_text(file, running[p].tasks)
    /\ running' = [running EXCEPT ![p] = Idle]
    /\ UNCHANGED <<issued, born>>

\* Two processes run mutating calls on the same store, all within one
\* second and with one description; the load, the open for writing and the
\* write of one call are steps the other process may run its own steps
\* between.
NextTwoProcesses ==
    \E p \in Procs :
        \/ StartAdd(p, FirstSecond, PlainDescription)
        \/ StartUpdate(p, FirstSecond, PlainDescription)
        \/ StartDelete(p)
        \/ StartMarkInProgress(p, FirstSecond)
        \/ StartMarkDone(p, FirstSecond)
        \/ OpenForWrite(p)
        \/ WriteText(p)

SpecTwoProcesses == Init /\ [][NextTwoProcesses]_vars

(* ------------------------------ properties ----------------------------- *)

\* The ids of the collection a call loads.
StoredIds == {Stored[i].id : i \in 1..Len(Stored)}

\* The greatest id of a non-empty loaded collection.
GreatestStoredId == CHOOSE m \in StoredIds : \A k \in StoredIds : k <= m

\* The loaded record with the given id.
StoredRecord(id) == Stored[CHOOSE i \in 1..Len(Stored) : Stored[i].id = id]

\* A description with a character that is not whitespace.
NonBlank(d) == \E i \in 1..Len(d) : d[i] \notin {" ", "\t"}

\* C1 as stated: no add_task returns an id that an earlier add_task
\* returned, even when the earlier record has since been deleted.
C1_IdsNeverReused ==
    \A d \in Descriptions, now \in Instants :
        LET r == add_task(file, now, d, "none") IN
        r.err = "none" => r.ret.id \notin issued

\* C1 as amended: every id add_task returns is greater than every id in the
\* collection it loaded, so an id is handed out again only once its record
\* and every record with a greater id have been deleted.
C1_IdsAboveStoredOnes ==
    LET ids == StoredIds IN
    \A d \in Descriptions, now \in Instants :
        LET r == add_task(file, now, d, "none") IN
        r.err = "none" => \A k \in ids : r.ret.id > k

\* The record with the greatest id was deleted and a lower one is left: the
\* next add_task returns the deleted record's id again.
C1_TopRecordDeleted ==
    /\ Stored # <<>>
    /\ \E k \in issued : k > GreatestStoredId
    /\ add_task(file, 0, <<"a">>, "none").ret.id \in issued

\* C2: a successful add_task returns id 1 when the collection it loaded is
\* empty, and otherwise the greatest id of the loaded collection plus one;
\* a gap below the greatest id is never backfilled.
C2_AddReturnsMaxPlusOne ==
    LET expected == IF Stored = <<>> THEN 1 ELSE GreatestStoredId + 1 IN
    \A d \in Descriptions, now \in Instants :
        LET r == add_task(file, now, d, "none") IN
        r.err = "none" => r.ret.id = expected

\* After add, add, delete(1), add: the store holds ids 2 and 3, id 1 is free.
C2_GapNotBackfilled ==
    /\ Len(file.tasks) = 2
    /\ file.tasks[1].id = 2
    /\ file.tasks[2].id = 3

\* C3: the ids of the persisted collection are pairwise distinct.
C3_PersistedIdsDistinct ==
    \A i, j \in 1..Len(file.tasks) :
        i # j => file.tasks[i].id # file.tasks[j].id

\* A store of two records after three ids have been handed out.
C3_TwoRecordsAfterDelete ==
    /\ Len(file.tasks) = 2
    /\ Cardinality(issued) = 3

\* C4: the status of every persisted record is todo, in-progress or done.
C4_StatusAlwaysValid ==
    \A i \in 1..Len(file.tasks) :
        file.tasks[i].status \in {"todo", "in-progress", "done"}

\* A store in which one record was marked in progress and another done.
C4_BothMarksPersisted ==
    \E i, j \in 1..Len(file.tasks) :
        /\ file.tasks[i].status = "in-progress"
        /\ file.tasks[j].status = "done"

\* C5: every persisted record carries the createdAt its add_task set, from
\* that call until the delete_task that removes it.
C5_CreatedAtKept ==
    \A i \in 1..Len(file.tasks) :
        file.tasks[i].createdAt = born[file.tasks[i].id]

\* Two records: one re-described, one marked done, both at a reading other
\* than the one they were created at.
C5_UpdatedAfterCreation ==
    \E i, j \in 1..Len(file.tasks) :
        /\ i # j
        /\ file.tasks[i].updatedAt # file.tasks[i].createdAt
        /\ file.tasks[i].status = "todo"
        /\ file.tasks[j].updatedAt # file.tasks[j].createdAt
        /\ file.tasks[j].status = "done"

\* The record with the given id in the store f.
PersistedRecord(f, id) ==
    f.tasks[CHOOSE i \in 1..Len(f.tasks) : f.tasks[i].id = id]

\* The call succeeded and left record id with an updatedAt later than before.
StampedLater(r, id) ==
    /\ r.err = "none"
    /\ PersistedRecord(r.file, id).updatedAt > StoredRecord(id).updatedAt

\* C6 as stated: every successful update_task, mark_in_progress or
\* mark_done on an existing record leaves it an updatedAt that differs from,
\* and is later than, the one it had, whatever the clock reads during the
\* call.
C6_UpdatedAtAlwaysLater ==
    \A id \in StoredIds, now \in Instants :
        /\ \A d \in Descriptions :
               NonBlank(d) => StampedLater(update_task(file, now, id, d, "none"), id)
        /\ StampedLater(mark_in_progress(file, now, id, "none"), id)
        /\ StampedLater(mark_done(file, now, id, "none"), id)

\* The whole seconds of an instant, as the timestamp format keeps them.
SecondOf(now) ==
    CHOOSE s \in 0..now :
        s * TicksPerSecond <= now /\ now < (s + 1) * TicksPerSecond

\* The call succeeded and left record id stamped with the second of now.
StampedWith(r, id, now) ==
    /\ r.err = "none"
    /\ PersistedRecord(r.file, id).updatedAt = SecondOf(now)
    /\ r.ret.updatedAt = SecondOf(now)

\* C6 as amended: every update_task, mark_in_progress or mark_done on an
\* existing record succeeds and sets its updatedAt to the clock reading of
\* the call, cut to whole seconds; the value changes exactly when that
\* reading differs from the one stored (a call in the same second as the
\* previous stamp leaves updatedAt as it was).
C6_UpdatedAtIsTheReading ==
    \A id \in StoredIds, now \in Instants :
        /\ \A d \in Descriptions :
               NonBlank(d) => StampedWith(update_task(file, now, id, d, "none"), id, now)
        /\ StampedWith(mark_in_progress(file, now, id, "none"), id, now)
        /\ StampedWith(mark_done(file, now, id, "none"), id, now)

\* A record marked done within the second it was created in: its updatedAt
\* is still its createdAt.
C6_MarkedWithinCreationSecond ==
    \E i \in 1..Len(file.tasks) :
        /\ file.tasks[i].status = "done"
        /\ file.tasks[i].updatedAt = file.tasks[i].createdAt

\* C7: for every description that is non-empty after trimming, add_task
\* succeeds and returns a record with status todo, createdAt equal to
\* updatedAt and a strictly positive id; the persisted collection is the
\* loaded one, unchanged, with that record appended as its last element.
C7_AddAppendsTodoRecord ==
    LET loaded == Stored IN
    \A d \in Descriptions, now \in Instants :
        NonBlank(d) =>
            LET r == add_task(file, now, d, "none") IN
            /\ r.err = "none"
            /\ r.ret.status = "todo"
            /\ r.ret.createdAt = r.ret.updatedAt
            /\ r.ret.id \in Nat \ {0}
            /\ r.ret.description = d
            /\ r.file.kind = "json"
            /\ get_tasks(r.file, "none").tasks = Append(loaded, r.ret)

\* A record added after the first one was marked: it is last, it is todo,
\* and the marked record is still in front of it.
C7_AddedBehindMarkedRecord ==
    /\ Len(file.tasks) = 2
    /\ file.tasks[1].status = "done"
    /\ file.tasks[2].status = "todo"
    /\ file.tasks[2].createdAt = file.tasks[2].updatedAt
    /\ file.tasks[2].id > file.tasks[1].id

\* C8: add_task and update_task given an empty or whitespace-only
\* description raise a validation error and leave the store as it was (a
\* missing file stays missing), for update_task whether or not the id exists.
C8_BlankDescriptionRejected ==
    \A d \in Descriptions, now \in Instants :
        ~NonBlank(d) =>
            /\ LET r == add_task(file, now, d, "none") IN
               r.err = "validation" /\ r.file = file
            /\ \A id \in Ids :
                   LET r == update_task(file, now, id, d, "none") IN
                   r.err = "validation" /\ r.file = file

\* A store holding one id and lacking another, in which a whitespace-only
\* re-description of the record it holds is refused.
C8_BlankUpdateOfStoredRecord ==
    /\ StoredIds # {}
    /\ Ids \ StoredIds # {}
    /\ \E id \in StoredIds :
           update_task(file, 0, id, <<" ", "\t">>, "none").err = "validation"

\* The call raised not-found and left the store as it was.
NotFoundUnchanged(r) == r.err = "notfound" /\ r.file = file

\* C9 as stated: update_task, delete_task, mark_in_progress and mark_done
\* given an id that is not in the collection always raise a not-found error
\* and leave the store untouched (a missing file stays missing).
C9_UnknownIdAlwaysNotFound ==
    \A id \in Ids \ StoredIds, now \in Instants :
        /\ \A d \in Descriptions :
               NotFoundUnchanged(update_task(file, now, id, d, "none"))
        /\ NotFoundUnchanged(delete_task(file, id, "none"))
        /\ NotFoundUnchanged(mark_in_progress(file, now, id, "none"))
        /\ NotFoundUnchanged(mark_done(file, now, id, "none"))

\* C9 as amended: delete_task, mark_in_progress, mark_done, and update_task
\* given a description that is non-empty after trimming, raise a not-found
\* error on an id that is not in the collection; update_task given a blank
\* description raises the validation error instead; in every case the store
\* is left untouched (a missing file stays missing).
C9_UnknownIdNotFound ==
    LET unknown == Ids \ StoredIds IN
    \A id \in unknown, now \in Instants :
        /\ \A d \in Descriptions :
               LET r == update_task(file, now, id, d, "none") IN
               /\ r.err = IF NonBlank(d) THEN "notfound" ELSE "validation"
               /\ r.file = file
        /\ NotFoundUnchanged(delete_task(file, id, "none"))
        /\ NotFoundUnchanged(mark_in_progress(file, now, id, "none"))
        /\ NotFoundUnchanged(mark_done(file, now, id, "none"))

\* A store of two records whose first id was deleted: id 1 is unknown, and
\* marking it done is refused.
C9_UnknownIdBesideRecords ==
    /\ Len(Stored) = 2
    /\ 1 \notin StoredIds
    /\ mark_done(file, 0, 1, "none").err = "notfound"

\* The call either did not raise, or left the store as it was, or left the
\* complete collection the same call saves when nothing fails.
WholeOrUntouched(r, saved) ==
    r.err # "none" => r.file = file \/ r.file = saved.file

\* C10: after any operation that raises, the file holds either the complete
\* new collection or exactly the content it had before the operation.
C10_RaisedCallLeavesFileWhole ==
    \A fault \in Faults, id \in Ids, now \in Instants :
        /\ \A d \in Descriptions :
               /\ WholeOrUntouched(add_task(file, now, d, fault),
                                   add_task(file, now, d, "none"))
               /\ WholeOrUntouched(update_task(file, now, id, d, fault),
                                   update_task(file, now, id, d, "none"))
        /\ WholeOrUntouched(delete_task(file, id, fault),
                            delete_task(file, id, "none"))
        /\ WholeOrUntouched(mark_in_progress(file, now, id, fault),
                            mark_in_progress(file, now, id, "none"))
        /\ WholeOrUntouched(mark_done(file, now, id, fault),
                            mark_done(file, now, id, "none"))

RECURSIVE WithStatus(_, _)
\* The records of a sequence whose status is s, in the order they stand in.
WithStatus(tasks, s) ==
    IF tasks = <<>> THEN <<>>
    ELSE (IF Head(tasks).status = s THEN <<Head(tasks)>> ELSE <<>>)
             \o WithStatus(Tail(tasks), s)

\* C11: for each of the three status values s, list_tasks(s) succeeds and
\* returns exactly the records of list_tasks() whose status is s, in the
\* same relative order: the empty sequence when none has that status.
C11_FilterKeepsMatchingInOrder ==
    \A s \in {"todo", "in-progress", "done"} :
        LET all == list_tasks(file, NoFilter, "none")
            r == list_tasks(file, s, "none")
        IN /\ all.err = "none"
           /\ r.err = "none"
           /\ r.listed = WithStatus(all.listed, s)

\* A store of an in-progress record followed by a todo record: the todo
\* filter returns the second alone, the done filter returns nothing.
C11_MixedStatusesListed ==
    /\ Len(Stored) = 2
    /\ Stored[1].status = "in-progress"
    /\ Stored[2].status = "todo"
    /\ list_tasks(file, "todo", "none").listed = <<Stored[2]>>
    /\ list_tasks(file, "done", "none").listed = <<>>

\* C12: list_tasks given a filter that is provided but is not todo,
\* in-progress or done raises a validation error and returns no records,
\* whether the store is missing, empty or populated.
C12_UnknownFilterRejected ==
    \A s \in Filters \ {NoFilter, "todo", "in-progress", "done"} :
        LET r == list_tasks(file, s, "none") IN
        r.err = "validation" /\ r.listed = <<>>

\* A store with a done record, listed with the filter "Done".
C12_BogusFilterOnPopulatedStore ==
    /\ \E i \in 1..Len(Stored) : Stored[i].status = "done"
    /\ list_tasks(file, "Done", "none").err = "validation"

\* C13: list_tasks leaves the store as it was, with or without a filter,
\* valid or not, whether it returns or raises (a missing file stays
\* missing), and the same call made again returns the same result.
C13_ListLeavesStoreAlone ==
    \A s \in Filters, fault \in Faults :
        LET r == list_tasks(file, s, fault) IN
        /\ r.file = file
        /\ list_tasks(r.file, s, fault) = r

\* A store of two records that list_tasks returned both of, unfiltered, and
\* one of, filtered.
C13_ListedPopulatedStore ==
    /\ file.kind = "json"
    /\ Len(list_tasks(file, NoFilter, "none").listed) = 2
    /\ Len(list_tasks(file, "done", "none").listed) = 1
    /\ list_tasks(file, "done", "none").file = file

\* The collection a fresh TaskManager on the same path loads from store f.
Reloaded(f) == get_tasks(f, "none").tasks

\* The in-process collection of a call that changed one record of the
\* loaded collection into task.
Replaced(tasks, task) ==
    [i \in 1..Len(tasks) |-> IF tasks[i].id = task.id THEN task ELSE tasks[i]]

\* The call succeeded and a fresh load of the store it left gives the
\* collection it held in process, the record it returned included.
SavedAsHeld(r, held) ==
    /\ r.err = "none"
    /\ Reloaded(r.file) = held
    /\ \E i \in 1..Len(held) : Reloaded(r.file)[i] = r.ret

\* C14: after every successful add_task, update_task, mark_in_progress and
\* mark_done, a fresh load of the store gives the collection the call held
\* in process, and the record the call returned equals, field by field, the
\* loaded record with its id; the result of a call depends on nothing but
\* the store and the arguments.
C14_ReloadGivesInProcessCollection ==
    \A now \in Instants :
        /\ \A d \in Descriptions :
               NonBlank(d) =>
                   /\ LET r == add_task(file, now, d, "none") IN
                      SavedAsHeld(r, Append(Stored, r.ret))
                   /\ \A id \in StoredIds :
                          LET r == update_task(file, now, id, d, "none") IN
                          SavedAsHeld(r, Replaced(Stored, r.ret))
        /\ \A id \in StoredIds :
               /\ LET r == mark_in_progress(file, now, id, "none") IN
                  SavedAsHeld(r, Replaced(Stored, r.ret))
               /\ LET r == mark_done(file, now, id, "none") IN
                  SavedAsHeld(r, Replaced(Stored, r.ret))

\* A store holding a record re-described with a tab in front and then
\* marked done: the file spells the description with an escape, and the
\* load reads the tab back.
C14_EscapedDescriptionReloaded ==
    \E i \in 1..Len(file.tasks) :
        /\ Stored[i].description = <<"\t", "b", " ">>
        /\ file.tasks[i].description = <<"\\t", "b", " ">>
        /\ Stored[i].status = "done"

MarkedAs(r, id, status) ==
    /\ r.err = "none"
    /\ r.ret.id = id
    /\ r.ret.status = status
    /\ \E i \in 1..Len(Reloaded(r.file)) :
           Reloaded(r.file)[i].id = id /\ Reloaded(r.file)[i].status = status

\* C16: mark_in_progress and mark_done succeed on every record of the
\* collection whatever its status is (todo, in-progress or done) and set
\* it to in-progress and done respectively; so each may follow itself or
\* the other any number of times.
C16_MarksSucceedFromAnyStatus ==
    \A id \in StoredIds, now \in Instants :
        /\ MarkedAs(mark_in_progress(file, now, id, "none"), id, "in-progress")
        /\ MarkedAs(mark_done(file, now, id, "none"), id, "done")

\* A done record marked in progress (the reverse order), and the result
\* marked in progress again (a repeat) and marked done again.
C16_DoneMarkedInProgressAgain ==
    \E i \in 1..Len(Stored) :
        /\ Stored[i].status = "done"
        /\ LET back == mark_in_progress(file, MaxClock, Stored[i].id, "none")
           IN /\ back.ret.status = "in-progress"
              /\ mark_in_progress(back.file, MaxClock, Stored[i].id,
                                  "none").ret.status = "in-progress"
              /\ mark_done(back.file, MaxClock, Stored[i].id,
                           "none").ret.status = "done"

\* The ids of the collection in store f.
IdsIn(f) == {Reloaded(f)[i].id : i \in 1..Len(Reloaded(f))}

\* The status of record id in store f.
StatusIn(f, id) ==
    Reloaded(f)[CHOOSE i \in 1..Len(Reloaded(f)) : Reloaded(f)[i].id = id].status

\* The stores left by one public operation called on record id of store f:
\* update_task, mark_in_progress, mark_done.  (delete_task ends the record.)
OpsOn(f, id) ==
    {update_task(f, now, id, d, "none").file :
         now \in Instants, d \in {e \in Descriptions : NonBlank(e)}}
    \cup {mark_in_progress(f, now, id, "none").file : now \in Instants}
    \cup {mark_done(f, now, id, "none").file : now \in Instants}

\* The stores left by at most two such operations, one after the other: a
\* path between two of three statuses needs no more.
WithinTwoOpsOn(f, id) ==
    {f} \cup OpsOn(f, id) \cup UNION {OpsOn(g, id) : g \in OpsOn(f, id)}

\* C17 as stated: for every record of the collection and every status s
\* of the three, some sequence of public operations on that record takes it
\* to s; among them todo from in-progress and from done.
C17_EveryStatusReachable ==
    \A id \in StoredIds, s \in {"todo", "in-progress", "done"} :
        \E g \in WithinTwoOpsOn(file, id) : StatusIn(g, id) = s

\* The stores left by one public operation, whatever it is called with.
AfterAnyCall(f) ==
    {add_task(f, now, d, "none").file : now \in Instants, d \in Descriptions}
    \cup {update_task(f, now, id, d, "none").file :
              now \in Instants, id \in Ids, d \in Descriptions}
    \cup {delete_task(f, id, "none").file : id \in Ids}
    \cup {mark_in_progress(f, now, id, "none").file :
              now \in Instants, id \in Ids}
    \cup {mark_done(f, now, id, "none").file : now \in Instants, id \in Ids}
    \cup {list_tasks(f, s, "none").file : s \in Filters}

\* C17 as amended: from every status a record is taken to in-progress by
\* one mark_in_progress and to done by one mark_done; todo is the status
\* add_task creates a record with and nothing else sets it: no public
\* operation leaves a record that was in-progress or done with status todo.
C17_TodoOnlyAtCreation ==
    \A id \in StoredIds :
        /\ \E g \in OpsOn(file, id) : StatusIn(g, id) = "in-progress"
        /\ \E g \in OpsOn(file, id) : StatusIn(g, id) = "done"
        /\ StatusIn(file, id) # "todo" =>
               \A g \in AfterAnyCall(file) :
                   id \in IdsIn(g) => StatusIn(g, id) # "todo"

\* A store of two records where the first was re-described and marked and
\* a todo record was added behind it: no call returns the first to todo.
C17_MarkedRecordBesideTodo ==
    /\ Len(Stored) = 2
    /\ Stored[1].status = "in-progress"
    /\ Stored[1].description = <<"\t", "b", " ">>
    /\ Stored[2].status = "todo"
    /\ \A g \in WithinTwoOpsOn(file, Stored[1].id) :
           StatusIn(g, Stored[1].id) # "todo"

\* The cause and the exception class of every call that raises on store f,
\* over all operations, arguments and file-system outcomes.
RaisedBy(f) ==
    LET calls ==
            {add_task(f, now, d, fault) :
                 now \in Instants, d \in Descriptions, fault \in Faults}
            \cup {list_tasks(f, s, fault) : s \in Filters, fault \in Faults}
            \cup {update_task(f, 0, id, d, fault) :
                     id \in Ids, d \in Descriptions, fault \in Faults}
            \cup {delete_task(f, id, fault) : id \in Ids, fault \in Faults}
            \cup {mark_in_progress(f, 0, id, fault) :
                     id \in Ids, fault \in Faults}
            \cup {mark_done(f, 0, id, fault) : id \in Ids, fault \in Faults}
    IN {<<r.err, r.exc>> : r \in {c \in calls : c.err # "none"}}

\* C18: the errors are typed: a validation failure (empty description,
\* unknown filter), a missing id and an I/O failure raise exceptions of
\* three different classes, so two errors of different cause never have the
\* same class.
C18_ErrorClassTellsCause ==
    \A e1, e2 \in RaisedBy(file) : e1[1] # e2[1] => e1[2] # e2[2]

\* The store whose file holds the empty array.
EmptyStore == [kind |-> "json", tasks |-> <<>>]

\* The call r on the present store did what the same call e on EmptyStore
\* did: the same error or the same value, and the same store left behind
\* when it saved (a call that raised left the present store as it was).
SameAsOnEmpty(r, e) ==
    /\ r.err = e.err
    /\ r.ret = e.ret
    /\ r.listed = e.listed
    /\ r.file = IF e.err = "none" /\ e.file # EmptyStore THEN e.file ELSE file

\* C19: on a store that is missing or does not hold well-formed JSON (text
\* that is not JSON, bytes that are not text) every operation does what it
\* does on an empty collection and raises no load error: list_tasks returns
\* the empty sequence, add_task returns id 1 and persists the new record
\* alone, update_task (given a description that is not blank), delete_task
\* and the marks raise not-found.
C19_UnreadableStoreIsEmpty ==
    file.kind \in {"missing", "malformed", "undecodable"} =>
        \A now \in Instants :
            /\ \A s \in Filters :
                   SameAsOnEmpty(list_tasks(file, s, "none"),
                                 list_tasks(EmptyStore, s, "none"))
            /\ list_tasks(file, NoFilter, "none").err = "none"
            /\ list_tasks(file, NoFilter, "none").listed = <<>>
            /\ \A d \in Descriptions :
                   LET r == add_task(file, now, d, "none") IN
                   /\ SameAsOnEmpty(r, add_task(EmptyStore, now, d, "none"))
                   /\ NonBlank(d) =>
                          /\ r.err = "none"
                          /\ r.ret.id = 1
                          /\ Reloaded(r.file) = <<r.ret>>
            /\ \A id \in Ids :
                   /\ \A d \in Descriptions :
                          LET r == update_task(file, now, id, d, "none") IN
                          /\ SameAsOnEmpty(r, update_task(EmptyStore, now,
                                                          id, d, "none"))
                          /\ NonBlank(d) => r.err = "notfound"
                   /\ NotFoundUnchanged(delete_task(file, id, "none"))
                   /\ NotFoundUnchanged(mark_in_progress(file, now, id, "none"))
                   /\ NotFoundUnchanged(mark_done(file, now, id, "none"))

\* The call raised the storage error and returned neither record nor list.
Surfaced(r) ==
    /\ r.err = "storage"
    /\ r.exc # NoException
    /\ r.ret = NoTask
    /\ r.listed = <<>>

\* The call r of a mutating operation made while the file system fails as
\* fault says, against ok, the same call made while nothing fails.  A read
\* that fails (when the call gets as far as its load) raises the storage
\* error and nothing is saved; a save that fails (when the call gets as far
\* as its save) raises the storage error; a call that ends before the
\* failing step does what it does without the fault.
FaultSurfaces(r, ok, fault, loads) ==
    IF fault = "read"
    THEN IF loads THEN Surfaced(r) /\ r.file = file ELSE r = ok
    ELSE IF ok.err = "none" THEN Surfaced(r) ELSE r = ok

\* C20: an I/O failure other than a missing file or malformed JSON, during
\* the load or during the save, surfaces as a raised storage error: the
\* call returns no record and no list, and a load that failed is neither
\* read as an empty collection nor followed by a save.
C20_IOFailureSurfaces ==
    \A fault \in Faults \ {"none"}, now \in Instants :
        /\ \A s \in Filters :
               LET r == list_tasks(file, s, fault) IN
               IF fault = "read" THEN Surfaced(r) /\ r.file = file
               ELSE r = list_tasks(file, s, "none")
        /\ \A d \in Descriptions :
               /\ FaultSurfaces(add_task(file, now, d, fault),
                                add_task(file, now, d, "none"),
                                fault, NonBlank(d))
               /\ \A id \in Ids :
                      FaultSurfaces(update_task(file, now, id, d, fault),
                                    update_task(file, now, id, d, "none"),
                                    fault, NonBlank(d))
        /\ \A id \in Ids :
               /\ FaultSurfaces(delete_task(file, id, fault),
                                delete_task(file, id, "none"), fault, TRUE)
               /\ FaultSurfaces(mark_in_progress(file, now, id, fault),
                                mark_in_progress(file, now, id, "none"),
                                fault, TRUE)
               /\ FaultSurfaces(mark_done(file, now, id, fault),
                                mark_done(file, now, id, "none"), fault, TRUE)

\* A store cut short by a save that failed after records had been added,
\* on which the next add_task fails to read.
C20_FailedSaveThenFailedLoad ==
    /\ file.kind = "malformed"
    /\ issued # {}
    /\ Surfaced(add_task(file, 0, <<"a">>, "read"))

\* The call succeeded, returned a record with description d, and a fresh
\* load of the store it left holds that record, description d included, at
\* position i.
DescribedAs(r, i, d) ==
    /\ r.err = "none"
    /\ r.ret.description = d
    /\ Reloaded(r.file)[i] = r.ret

\* C22: add_task and update_task persist the description exactly as
\* supplied: a description that is non-empty after trimming is accepted and
\* stored character for character, leading and trailing whitespace included.
C22_DescriptionStoredAsSupplied ==
    LET loaded == Stored IN
    \A d \in Descriptions, now \in Instants :
        NonBlank(d) =>
            /\ DescribedAs(add_task(file, now, d, "none"), Len(loaded) + 1, d)
            /\ \A i \in 1..Len(loaded) :
                   DescribedAs(update_task(file, now, loaded[i].id, d, "none"),
                               i, d)

\* A store of two records that both carry the padded description, tab in
\* front and space behind.
C22_TwoPaddedDescriptionsStored ==
    /\ Len(Stored) = 2
    /\ Stored[1].description = <<"\t", "b", " ">>
    /\ Stored[2].description = <<"\t", "b", " ">>

\* Records a and b agree on the fields update_task does not assign.
SameButDescriptionAndStamp(a, b) ==
    /\ a.id = b.id
    /\ a.status = b.status
    /\ a.createdAt = b.createdAt

\* C25: a successful update_task(id, d) replaces only the description and
\* updatedAt of the record with that id: its id, status and createdAt, its
\* position, the number of records and every other record are unchanged.
C25_UpdateTouchesOneRecord ==
    LET loaded == Stored IN
    \A i \in 1..Len(loaded), d \in Descriptions, now \in Instants :
        NonBlank(d) =>
            LET r == update_task(file, now, loaded[i].id, d, "none")
                after == Reloaded(r.file)
            IN /\ r.err = "none"
               /\ Len(after) = Len(loaded)
               /\ SameButDescriptionAndStamp(after[i], loaded[i])
               /\ after[i].description = d
               /\ after[i].updatedAt = get_timestamp(now)
               /\ \A k \in 1..Len(after) : k # i => after[k] = loaded[k]

\* An in-progress record in front of a done one: re-describing the first at
\* a later second changes its description and updatedAt and nothing else.
C25_FirstOfTwoRedescribed ==
    /\ Len(Stored) = 2
    /\ Stored[1].status = "in-progress"
    /\ Stored[1].description = <<"a">>
    /\ Stored[2].status = "done"
    /\ LET r == update_task(file, MaxClock, Stored[1].id,
                            <<"\t", "b", " ">>, "none")
       IN /\ Reloaded(r.file)[1].description # Stored[1].description
          /\ Reloaded(r.file)[1].updatedAt # Stored[1].updatedAt
          /\ Reloaded(r.file)[2] = Stored[2]

\* The call succeeded and left the loaded collection as it was but for
\* record i, which has the given status, the updatedAt of the call's
\* instant, and every other field as before.
OnlyStatusAndStamp(r, loaded, i, status, now) ==
    LET after == Reloaded(r.file) IN
    /\ r.err = "none"
    /\ Len(after) = Len(loaded)
    /\ after[i] = [loaded[i] EXCEPT !.status = status,
                                    !.updatedAt = get_timestamp(now)]
    /\ after[i].id = loaded[i].id
    /\ after[i].description = loaded[i].description
    /\ after[i].createdAt = loaded[i].createdAt
    /\ \A k \in 1..Len(after) : k # i => after[k] = loaded[k]

\* C29: a successful mark_in_progress or mark_done changes only the status
\* and updatedAt of the record with the given id: its description, id and
\* createdAt, the number and order of records and every other record are
\* unchanged; marking a record with the status it already has leaves
\* everything except updatedAt identical.
C29_MarkTouchesOneRecord ==
    LET loaded == Stored IN
    \A i \in 1..Len(loaded), now \in Instants :
        /\ OnlyStatusAndStamp(mark_in_progress(file, now, loaded[i].id, "none"),
                              loaded, i, "in-progress", now)
        /\ OnlyStatusAndStamp(mark_done(file, now, loaded[i].id, "none"),
                              loaded, i, "done", now)

\* A done record with a padded description behind a todo record: marking it
\* done again at a later second changes its updatedAt and nothing else.
C29_DoneMarkedDoneAgain ==
    /\ Len(Stored) = 2
    /\ Stored[1].status = "todo"
    /\ Stored[2].status = "done"
    /\ Stored[2].description = <<"\t", "b", " ">>
    /\ LET r == mark_done(file, MaxClock, Stored[2].id, "none")
       IN /\ Reloaded(r.file)[2].updatedAt # Stored[2].updatedAt
          /\ Reloaded(r.file)[2] =
                 [Stored[2] EXCEPT !.updatedAt = get_timestamp(MaxClock)]
          /\ Reloaded(r.file)[1] = Stored[1]

\* Sequence s without its k-th element.
Without(s, k) == SubSeq(s, 1, k - 1) \o SubSeq(s, k + 1, Len(s))

\* The ids of the records list_tasks() returns from store f, in its order.
ListedIds(f) == IdsOf(list_tasks(f, NoFilter, "none").listed)

C27_IdsIncreaseAlongCollection ==
    \A i, j \in 1..Len(file.tasks) :
        i < j => file.tasks[i].id < file.tasks[j].id

\* A store that lost its first record: the todo record with id 2 stands in
\* front of the done record with id 3.
C27_IncreasingBehindAGap ==
    /\ Len(file.tasks) = 2
    /\ file.tasks[1].id = 2 /\ file.tasks[1].status = "todo"
    /\ file.tasks[2].id = 3 /\ file.tasks[2].status = "done"

\* The call succeeded on a record that was old before it, and the record u
\* it returned and persisted is stamped no earlier than it was created: at
\* its creation second exactly when old was and the call read that second.
StampedFromCreation(r, old, now) ==
    /\ r.err = "none"
    /\ \E i \in 1..Len(Reloaded(r.file)) : Reloaded(r.file)[i] = r.ret
    /\ r.ret.createdAt = old.createdAt
    /\ r.ret.updatedAt >= r.ret.createdAt
    /\ r.ret.updatedAt = r.ret.createdAt
           <=> /\ old.updatedAt = old.createdAt
               /\ get_timestamp(now) = old.createdAt

\* C30: under a timestamp source that never goes backwards between calls,
\* every persisted record has updatedAt >= createdAt in every reachable
\* state; add_task creates a record with the two equal, and they stay equal
\* exactly until the first update_task, mark_in_progress or mark_done on the
\* record at which the source gives a later timestamp (a later second).
C30_UpdatedAtFromCreatedAtOn ==
    LET loaded == Stored IN
    /\ \A i \in 1..Len(loaded) : loaded[i].updatedAt >= loaded[i].createdAt
    /\ \A now \in NotEarlier :
        /\ \A d \in Descriptions :
               NonBlank(d) =>
                   /\ LET r == add_task(file, now, d, "none") IN
                      r.err = "none" /\ r.ret.updatedAt = r.ret.createdAt
                   /\ \A i \in 1..Len(loaded) :
                          StampedFromCreation(
                              update_task(file, now, loaded[i].id, d, "none"),
                              loaded[i], now)
        /\ \A i \in 1..Len(loaded) :
               /\ StampedFromCreation(
                      mark_in_progress(file, now, loaded[i].id, "none"),
                      loaded[i], now)
               /\ StampedFromCreation(
                      mark_done(file, now, loaded[i].id, "none"),
                      loaded[i], now)

\* A record re-described in a second after its creation, next to a record
\* marked done within the second it was created in.
C30_OneStampedLaterOneNot ==
    \E i, j \in 1..Len(file.tasks) :
        /\ file.tasks[i].status = "todo"
        /\ file.tasks[i].updatedAt > file.tasks[i].createdAt
        /\ file.tasks[j].status = "done"
        /\ file.tasks[j].updatedAt = file.tasks[j].createdAt
        /\ file.tasks[j].createdAt = file.tasks[i].updatedAt

\* Handler result r of a call with id argument arg: it printed the invalid
\* id line and nothing else, returned, called no manager method and left
\* the store as it was.
InvalidIdReported(r, arg) ==
    /\ r.exc = NoException
    /\ r.out = <<InvalidIdLine(arg)>>
    /\ r.calls = <<>>
    /\ r.file = file

\* C23: command_update, command_delete, command_mark_in_progress and
\* command_mark_done, given an id argument that is not an integer, print an
\* 'Invalid task ID' error, return normally, never call the manager and
\* leave the store unchanged, whatever the file system would do to a call.
C23_NonIntegerIdRefused ==
    \A arg \in NonIntegerArgs, now \in Instants, fault \in Faults :
        /\ \A d \in Descriptions :
               InvalidIdReported(command_update(file, now, arg, d, fault), arg)
        /\ InvalidIdReported(command_delete(file, arg, fault), arg)
        /\ InvalidIdReported(
               command_mark_in_progress(file, now, arg, fault), arg)
        /\ InvalidIdReported(command_mark_done(file, now, arg, fault), arg)

\* A store holding record 1, on which the argument "1.5" is refused by
\* command_delete while the argument "1" would delete the record.
C23_DecimalIdOnStoredRecord ==
    /\ 1 \in StoredIds
    /\ command_delete(file, <<"1", ".", "5">>, "none").out
           = <<InvalidIdLine(<<"1", ".", "5">>)>>
    /\ command_delete(file, <<"1">>, "none").file # file

\* Handler result r of a call whose manager call m raised: the handler
\* caught the error, printed one line that tells it, returned, and the
\* store is as it was before the call.
ErrorCaught(r, m) ==
    m.exc # NoException =>
        /\ r.exc = NoException
        /\ r.out = <<ErrorLine(m)>>
        /\ r.file = file

\* C24: every command handler (add, list, update, delete, mark-in-progress,
\* mark-done) catches every error the manager raises (validation,
\* not-found, storage), prints a one-line message and returns normally
\* without side effects: no manager error propagates out of a handler.
C24_EveryHandlerCatches ==
    \A now \in Instants, fault \in Faults :
        /\ \A d \in Descriptions :
               ErrorCaught(command_add(file, now, d, fault),
                           add_task(file, now, d, fault))
        /\ \A s \in Filters :
               ErrorCaught(command_list(file, s, fault),
                           list_tasks(file, s, fault))
        /\ \A arg \in IntegerArgs :
               /\ \A d \in Descriptions :
                      ErrorCaught(
                          command_update(file, now, arg, d, fault),
                          update_task(file, now, int(arg).value, d, fault))
               /\ ErrorCaught(command_delete(file, arg, fault),
                              delete_task(file, int(arg).value, fault))
               /\ ErrorCaught(
                      command_mark_in_progress(file, now, arg, fault),
                      mark_in_progress(file, now, int(arg).value, fault))
               /\ ErrorCaught(
                      command_mark_done(file, now, arg, fault),
                      mark_done(file, now, int(arg).value, fault))

\* The store after process p and then process q have each opened the file
\* and written the collection they hold, one save after the other.
SavedInTurn(p, q) ==
    write_text(open_for_write(
                   write_text(open_for_write(file), running[p].tasks)),
               running[q].tasks)

\* The store after both have opened the file, p has written and then q has
\* written: the two saves overlap, and q's write is the last.
SavedOverlapping(p, q) ==
    write_text(write_text(open_for_write(open_for_write(file)),
                          running[p].tasks),
               running[q].tasks)

\* Store f holds exactly the collection process q holds.
HoldsCollectionOf(f, q) ==
    /\ f.kind = "json"
    /\ get_tasks(f, "none").tasks = running[q].tasks

\* C21: when two processes run mutating operations on the same file and
\* both have loaded before either saves, the later writer's overwrite wins:
\* whichever way the two saves follow or overlap each other, the final file
\* is the collection of the process that wrote last, as that process held
\* it, with nothing of what the earlier writer wrote; no step of a save
\* raises or looks at what the file holds.
C21_LaterWriterWins ==
    \A p, q \in Procs :
        (p # q /\ running[p].pc = "loaded" /\ running[q].pc = "loaded") =>
            /\ HoldsCollectionOf(SavedInTurn(p, q), q)
            /\ HoldsCollectionOf(SavedOverlapping(p, q), q)

\* C28: even when two processes interleave their loads and saves on the
\* same file, each save writing the whole collection in one write, every
\* state of the file that parses has pairwise distinct ids, and so has the
\* collection every call holds: a lost update can drop a record but never
\* leaves two records with one id.
C28_DistinctIdsUnderInterleaving ==
    /\ \A i, j \in 1..Len(file.tasks) :
           i # j => file.tasks[i].id # file.tasks[j].id
    /\ \A p \in Procs : \A i, j \in 1..Len(running[p].tasks) :
           i # j => running[p].tasks[i].id # running[p].tasks[j].id

\* Both processes added a record to the same store and so both hold a
\* record with id 2; B has saved its collection, and A, which opened the
\* file before B wrote, is about to write over it.
C28_SameIdHandedOutTwice ==
    /\ running["A"].pc = "opened"
    /\ running["B"].pc = "idle"
    /\ file.kind = "json"
    /\ Len(file.tasks) = 2
    /\ Len(running["A"].tasks) = 2
    /\ file.tasks[2].id = 2
    /\ running["A"].tasks[2].id = 2

====
